---- MODULE Spec2Model ----
(***************************************************************************)
(* Model of Agents/weather_agent.py: the process entry, the session loop   *)
(* of main(), and the two-node agent graph (agent -> action -> agent) it   *)
(* streams for every user turn.                                            *)
(*                                                                         *)
(* Text is a sequence of tokens.  A user line is a sequence of characters  *)
(* (so that str.lower() is modelled character by character), and so are a *)
(* city and the values of the provider's reply; the answers of the model   *)
(* and the fixed messages are single opaque tokens.                        *)
(*                                                                         *)
(* output holds the user-facing lines only (banner, goodbye, "AI: ...",    *)
(* the fallback, the credential error); the diagnostic trace printed by    *)
(* the nodes and by pretty_print is recorded as streamed, per turn.        *)
(* The model backend, the tool node and the weather provider are outside   *)
(* the file: their answers are chosen nondeterministically.                *)
(***************************************************************************)
EXTENDS Integers, Sequences, FiniteSets, TLC

\* ------------------------------------------------------------------ bounds
\* Non-exit user lines accepted in one session.
MaxTurns == 2
\* Tool requests the model backend may issue within one turn.
MaxToolCycles == 1
\* Tool calls carried by one assistant tool request.
MaxCallsPerRequest == 1
\* Direct calls of get_weather made by a caller that imported the file.
MaxFetches == 2

\* ------------------------------------------------------------- input sets
\* Lines the user may type.
Lines ==
  { <<"q","u","i","t">>, <<"E","x","i","T">>, <<"q","u","i","t"," ">>, <<"h","i">> }

\* Final texts the model backend may answer with.
AnswerTexts == { <<"It's sunny.">>, <<"No idea.">> }

\* Tool names the model backend may ask for; only get_weather is registered.
RequestedNames == { "get_weather", "get_time" }

\* City arguments the model backend may pass.
Cities == { <<"N"," ","Y">> }

\* What the weather provider may do with the one GET of a lookup.
ProviderOutcomes == { "ok", "transport_error", "no_current_condition" }

\* The provider behaviours a direct caller of get_weather is tried with.
FetchResponses ==
  ProviderOutcomes \cup
  { "ok_rainy", "http_404", "not_json", "empty_list", "data_is_list",
    "condition_is_text", "condition_is_null", "desc_without_value",
    "no_humidity" }

\* The arguments a direct caller may pass as city: text or not.
FetchCities ==
  { [t |-> "str", d |-> <<"N"," ","Y">>], [t |-> "str", d |-> <<"R","i","o">>],
    [t |-> "int", d |-> <<"4","2">>], [t |-> "none", d |-> <<>>] }

\* ---------------------------------------------------------------- helpers
Last(s) == s[Len(s)]

IsPrefix(s, t) == Len(s) <= Len(t) /\ SubSeq(t, 1, Len(s)) = s

\* All sequences over S of length 1..n.
SeqsUpTo(S, n) == UNION { [1..k -> S] : k \in 1..n }

\* str.lower() on the characters that occur in Lines.
UpperToLower ==
  ("Q" :> "q") @@ ("U" :> "u") @@ ("I" :> "i") @@ ("T" :> "t") @@
  ("E" :> "e") @@ ("X" :> "x") @@ ("H" :> "h")

LowerChar(c) == IF c \in DOMAIN UpperToLower THEN UpperToLower[c] ELSE c

\* A lower() that leaves the line as typed.
lower_identity(line) == line

lower(line) == [i \in 1..Len(line) |-> LowerChar(line[i])]

\* ---------------------------------------------------------------- messages
NoMessage == [type |-> "none", content |-> <<>>, tool_calls |-> <<>>, name |-> ""]

HumanMessage(text) ==
  [type |-> "human", content |-> text, tool_calls |-> <<>>, name |-> ""]

AIMessage(text, calls) ==
  [type |-> "ai", content |-> text, tool_calls |-> calls, name |-> ""]

ToolMessage(text, toolname) ==
  [type |-> "tool", content |-> text, tool_calls |-> <<>>, name |-> toolname]

ToolCalls == [name : RequestedNames, city : Cities]

\* ------------------------------------------------------------------- state
VARIABLES
  env_key,               \* OPENAI_API_KEY in the environment: unset, empty, set
  pc,                    \* where the process is
  conversation_history,  \* main's list
  user_input,            \* the line read last
  final_response,        \* main's final_response of the current turn
  messages,              \* AgentState.messages of the running graph
  streamed,              \* messages received from the stream in this turn
  model_input,           \* the sequence handed to model.invoke last
  output,                \* user-facing lines printed so far
  turns,                 \* completed turns
  cycles,                \* tool requests issued in the current turn
  inputs_read,           \* calls of input()
  model_calls,           \* calls of model.invoke
  tool_runs,             \* runs of the tool node
  http_log,              \* URLs of the GET requests of this turn (or caller)
  fetch_calls,           \* calls of get_weather in this turn (or by the caller)
  fw_city,               \* argument of the last direct call of get_weather
  fw_resp,               \* what the provider did in that call
  fw_result              \* what that call returned or raised

vars ==
  << env_key, pc, conversation_history, user_input, final_response, messages,
     streamed, model_input, output, turns, cycles, inputs_read, model_calls,
     tool_runs, http_log, fetch_calls, fw_city, fw_resp, fw_result >>

\* The variables of get_weather's side effects and of its direct calls.
fetch_vars == << http_log, fetch_calls, fw_city, fw_resp, fw_result >>

\* The record of a call of get_weather: the exception that left it (if
\* any), the text it returned, the URLs it requested.
NoResult == [raised |-> "", text |-> <<>>, requests |-> <<>>]

InTurn == pc \in {"Deciding", "Dispatching", "TurnEnd"}

Out(kind, text) == [kind |-> kind, text |-> text]

\* The state when the interpreter starts loading the file.  A variable that
\* is set but empty passes the client's construction and fails the guard.
InitData ==
  /\ env_key \in {"unset", "empty", "set"}
  /\ http_log = <<>>
  /\ fetch_calls = 0
  /\ fw_city = [t |-> "none", d |-> <<>>]
  /\ fw_resp = ""
  /\ fw_result = NoResult
  /\ conversation_history = <<>>
  /\ user_input = <<>>
  /\ final_response = NoMessage
  /\ messages = <<>>
  /\ streamed = <<>>
  /\ model_input = <<>>
  /\ output = <<>>
  /\ turns = 0
  /\ cycles = 0
  /\ inputs_read = 0
  /\ model_calls = 0
  /\ tool_runs = 0

Init == InitData /\ pc = "Import"

\* ---------------------------------------------------------- process entry
\* Module level: ChatOpenAI(...) is constructed when the file is loaded,
\* before the __main__ guard; the client refuses to be built without a key.
ConstructModel ==
  /\ pc = "Import"
  /\ pc' = IF env_key = "unset" THEN "Crashed" ELSE "MainGuard"
  /\ UNCHANGED << env_key, conversation_history, user_input, final_response,
                  messages, streamed, model_input, output, turns, cycles,
                  inputs_read, model_calls, tool_runs >>
  /\ UNCHANGED fetch_vars

\* if not os.getenv("OPENAI_API_KEY"): print the two error lines.
MissingKey ==
  /\ pc = "MainGuard"
  /\ env_key # "set"
  /\ output' = output \o << Out("error", <<"OPENAI_API_KEY environment variable not set.">>),
                            Out("error", <<"Please set your OpenAI API key to run the agent.">>) >>
  /\ pc' = "ConfigExit"
  /\ UNCHANGED << env_key, conversation_history, user_input, final_response,
                  messages, streamed, model_input, turns, cycles, inputs_read,
                  model_calls, tool_runs >>
  /\ UNCHANGED fetch_vars

\* else: main() up to the first input().
StartMain ==
  /\ pc = "MainGuard"
  /\ env_key = "set"
  /\ output' = Append(output, Out("ready", <<"Weather AI Agent is ready.">>))
  /\ conversation_history' = <<>>
  /\ pc' = "AwaitingInput"
  /\ UNCHANGED << env_key, user_input, final_response, messages, streamed,
                  model_input, turns, cycles, inputs_read, model_calls,
                  tool_runs >>
  /\ UNCHANGED fetch_vars

\* ------------------------------------------------------------ agent graph
\* A reducer that overwrites the channel with the update.
add_overwrite(a, b) == b

\* operator.add, the reducer of AgentState.messages.
add(a, b) == a \o b

\* An in-place extension (list.extend, +=) of the left operand.
operand_after_iadd(a, b) == a \o b

\* What operator.add leaves in its left operand: the list handed to the
\* graph as input is main's conversation_history itself, and a + b builds a
\* new list without touching a.
operand_after_add(a, b) == a

\* should_continue, evaluated on the state after the agent node.
should_continue(state_messages) ==
  IF Len(Last(state_messages).tool_calls) > 0 THEN "continue" ELSE "end"

\* An edge map with its two targets exchanged.
NextNode_swapped(route) == IF route = "continue" THEN "TurnEnd" ELSE "Dispatching"

\* The conditional edge map of the agent node.
NextNode(route) == IF route = "continue" THEN "Dispatching" ELSE "TurnEnd"

\* A scan that keeps the AIMessages that do carry tool calls.
RECURSIVE ScanChunk_flipped(_, _)
ScanChunk_flipped(fr, msgs) ==
  IF msgs = <<>> THEN fr
  ELSE LET m == Head(msgs)
       IN ScanChunk_flipped(IF m.type = "ai" /\ m.tool_calls # <<>> THEN m ELSE fr,
                            Tail(msgs))

\* main's scan of one chunk: the last AIMessage without tool calls wins.
RECURSIVE ScanChunk(_, _)
ScanChunk(fr, msgs) ==
  IF msgs = <<>> THEN fr
  ELSE LET m == Head(msgs)
       IN ScanChunk(IF m.type = "ai" /\ m.tool_calls = <<>> THEN m ELSE fr,
                    Tail(msgs))

\* ------------------------------------------------------------ get_weather
\* JSON values as Python holds them after response.json(): a tag and the
\* payload (a record for a dict, a sequence for a list, the characters of
\* a str).
JDict(fields) == [t |-> "dict", d |-> fields]
JList(items) == [t |-> "list", d |-> items]
JStr(chars) == [t |-> "str", d |-> chars]
JNull == [t |-> "null", d |-> <<>>]

\* One element of the provider's current_condition list.
Condition(desc, c, f, h, w) ==
  JDict([weatherDesc |-> JList(<< JDict([value |-> JStr(desc)]) >>),
         temp_C |-> JStr(c), temp_F |-> JStr(f),
         humidity |-> JStr(h), windspeedKmph |-> JStr(w)])

Sunny == Condition(<<"S","u","n","n","y">>, <<"1","8">>, <<"6","4">>, <<"4","0">>, <<"1","0">>)

Rainy == Condition(<<"R","a","i","n">>, <<"7">>, <<"4","5">>, <<"9","0">>, <<"2","2">>)

\* What requests.get meets: error is the transport failure (none if ""),
\* status the HTTP status, json whether the body parses, data the parsed body.
Reply(error, status, json, data) ==
  [error |-> error, status |-> status, json |-> json, data |-> data]

Response(provider) ==
  CASE provider = "ok" ->
         Reply("", 200, TRUE, JDict([current_condition |-> JList(<< Sunny >>)]))
    [] provider = "ok_rainy" ->
         Reply("", 200, TRUE,
               JDict([current_condition |-> JList(<< Rainy, Sunny >>),
                      nearest_area |-> JList(<<>>)]))
    [] provider = "transport_error" -> Reply("ConnectionError", 0, FALSE, JNull)
    [] provider = "http_404" -> Reply("", 404, FALSE, JNull)
    [] provider = "not_json" -> Reply("", 200, FALSE, JNull)
    [] provider = "no_current_condition" ->
         Reply("", 200, TRUE, JDict([nearest_area |-> JList(<<>>)]))
    [] provider = "empty_list" ->
         Reply("", 200, TRUE, JDict([current_condition |-> JList(<<>>)]))
    [] provider = "data_is_list" -> Reply("", 200, TRUE, JList(<< Sunny >>))
    [] provider = "condition_is_text" ->
         Reply("", 200, TRUE, JDict([current_condition |-> JStr(<<"n","/","a">>)]))
    [] provider = "condition_is_null" ->
         Reply("", 200, TRUE, JDict([current_condition |-> JNull]))
    [] provider = "desc_without_value" ->
         Reply("", 200, TRUE,
               JDict([current_condition |-> JList(<<
                 JDict([weatherDesc |-> JList(<< JDict([text |-> JStr(<<"x">>)]) >>),
                        temp_C |-> JStr(<<"1">>), temp_F |-> JStr(<<"3","4">>),
                        humidity |-> JStr(<<"5">>),
                        windspeedKmph |-> JStr(<<"3">>)]) >>)]))
    [] OTHER -> \* "no_humidity"
         Reply("", 200, TRUE,
               JDict([current_condition |-> JList(<<
                 JDict([weatherDesc |-> JList(<< JDict([value |-> JStr(<<"F","o","g">>)]) >>),
                        temp_C |-> JStr(<<"1">>), temp_F |-> JStr(<<"3","4">>),
                        windspeedKmph |-> JStr(<<"3">>)]) >>)]))

\* The outcome of a Python expression: the exception it raised (none if "")
\* or its value.
Ok(v) == [exc |-> "", val |-> v]
Exc(e) == [exc |-> e, val |-> JNull]

\* x[key] for a str key.
GetItemKey(r, key) ==
  IF r.exc # "" THEN r
  ELSE IF r.val.t = "dict"
       THEN IF key \in DOMAIN r.val.d THEN Ok(r.val.d[key]) ELSE Exc("KeyError")
       ELSE Exc("TypeError")

\* x[0].
GetItem0(r) ==
  IF r.exc # "" THEN r
  ELSE CASE r.val.t = "list" ->
              IF Len(r.val.d) > 0 THEN Ok(r.val.d[1]) ELSE Exc("IndexError")
         [] r.val.t = "str" ->
              IF Len(r.val.d) > 0 THEN Ok(JStr(<< r.val.d[1] >>)) ELSE Exc("IndexError")
         [] r.val.t = "dict" -> Exc("KeyError")
         [] OTHER -> Exc("TypeError")

\* The first exception of statements executed in order.
RECURSIVE FirstExc(_)
FirstExc(rs) ==
  IF rs = <<>> THEN ""
  ELSE IF Head(rs).exc # "" THEN Head(rs).exc ELSE FirstExc(Tail(rs))

\* A URL built from the city as it was given.
Url_noreplace(city) == <<"https://wttr.in/">> \o city \o <<"?format=j1">>

\* f"https://wttr.in/{city.replace(' ', '+')}?format=j1"
Url(city) ==
  <<"https://wttr.in/">>
    \o [i \in 1..Len(city) |-> IF city[i] = " " THEN "+" ELSE city[i]]
    \o <<"?format=j1">>

\* A report with the two temperatures exchanged.
json_report_swapped(city, desc, c, f, h, w) ==
  <<"city">> \o city
    \o <<"temperature_celsius">> \o f
    \o <<"temperature_fahrenheit">> \o c
    \o <<"description">> \o desc
    \o <<"humidity_percent">> \o h
    \o <<"wind_speed_kmph">> \o w

\* json.dumps of the six-field dict: the keys in order, each followed by
\* the characters of its value.
json_report(city, desc, c, f, h, w) ==
  <<"city">> \o city
    \o <<"temperature_celsius">> \o c
    \o <<"temperature_fahrenheit">> \o f
    \o <<"description">> \o desc
    \o <<"humidity_percent">> \o h
    \o <<"wind_speed_kmph">> \o w

\* A type test that lets every argument through.
is_text_always(city) == TRUE

\* isinstance(city, str)
is_text(city) == city.t = "str"

Returned(text, reqs) == [raised |-> "", text |-> text, requests |-> reqs]
Raised(exc, reqs) == [raised |-> exc, text |-> <<>>, requests |-> reqs]

\* get_weather: the type test, the one GET, the extraction of the fields
\* and the two except clauses; any other exception leaves the function.
get_weather(city, provider) ==
  IF ~is_text(city)
  THEN Returned(<<"Error: City must be a string.">>, <<>>)
  ELSE
    LET reqs == << Url(city.d) >>
        resp == Response(provider)
        cc == GetItem0(GetItemKey(Ok(resp.data), "current_condition"))
        desc == GetItemKey(GetItem0(GetItemKey(cc, "weatherDesc")), "value")
        temp_c == GetItemKey(cc, "temp_C")
        temp_f == GetItemKey(cc, "temp_F")
        humidity == GetItemKey(cc, "humidity")
        wind == GetItemKey(cc, "windspeedKmph")
        exc == FirstExc(<< cc, desc, temp_c, temp_f, humidity, wind >>)
    IN
    IF resp.error # ""
    THEN Returned(<<"Error fetching weather data:", resp.error>>, reqs)
    ELSE IF resp.status >= 400
    THEN Returned(<<"Error fetching weather data:", "HTTPError">>, reqs)
    ELSE IF ~resp.json
    THEN Returned(<<"Error fetching weather data:", "JSONDecodeError">>, reqs)
    ELSE IF exc \in {"KeyError", "IndexError"}
    THEN Returned(<<"Error parsing weather data. The city might be invalid. Details:",
                    exc>>, reqs)
    ELSE IF exc # ""
    THEN Raised(exc, reqs)
    ELSE Returned(json_report(city.d, desc.val.d, temp_c.val.d, temp_f.val.d,
                              humidity.val.d, wind.val.d), reqs)

\* The tool node's call of the tool: the model's city argument is text; an
\* exception leaving the tool becomes the text of an error result.
TextArg(chars) == [t |-> "str", d |-> chars]

ToolText(result) ==
  IF result.raised # "" THEN <<"Error:", result.raised>> ELSE result.text

\* A tool node that labels every result with the registered tool's name.
RunTool_fixedname(call, provider) ==
  IF call.name = "get_weather"
  THEN ToolMessage(ToolText(get_weather(TextArg(call.city), provider)), "get_weather")
  ELSE ToolMessage(<<"Error: not a valid tool">>, "get_weather")

\* The tool node on one tool call: the registered tool is run, any other
\* name is answered with an error-shaped result under the requested name.
RunTool(call, provider) ==
  IF call.name = "get_weather"
  THEN ToolMessage(ToolText(get_weather(TextArg(call.city), provider)), call.name)
  ELSE ToolMessage(<<"Error: not a valid tool">>, call.name)

\* The GET requests the tool node causes for the calls of one request.
RECURSIVE ToolRequests(_, _)
ToolRequests(calls, provider) ==
  IF calls = <<>> THEN <<>>
  ELSE (IF Head(calls).name = "get_weather"
        THEN get_weather(TextArg(Head(calls).city), Head(provider)).requests
        ELSE <<>>)
       \o ToolRequests(Tail(calls), Tail(provider))

\* The calls of one request that reach get_weather.
WeatherCalls(calls) ==
  Cardinality({ i \in 1..Len(calls) : calls[i].name = "get_weather" })

\* A call_model that hands over the newest message only.
ModelInput_lastonly(state_messages) == << Last(state_messages) >>

\* call_model: messages = state['messages'] is what model.invoke receives.
ModelInput(state_messages) == state_messages

\* ---------------------------------------------------------- session loop
\* input(), the exit test, and for any other line the start of the turn.
ReadInput ==
  /\ pc = "AwaitingInput"
  /\ \E line \in Lines :
       /\ user_input' = line
       /\ inputs_read' = inputs_read + 1
       /\ IF lower(line) \in { <<"q","u","i","t">>, <<"e","x","i","t">> }
          THEN /\ output' = Append(output, Out("goodbye", <<"Goodbye!">>))
               /\ pc' = "Exiting"
               /\ UNCHANGED << conversation_history, final_response, messages,
                               streamed, cycles >>
          ELSE /\ turns < MaxTurns
               /\ conversation_history' =
                    Append(conversation_history, HumanMessage(line))
               /\ final_response' = NoMessage
               /\ messages' = add(<<>>, conversation_history')
               /\ streamed' = <<>>
               /\ cycles' = 0
               /\ pc' = "Deciding"
               /\ UNCHANGED output
  /\ UNCHANGED << env_key, model_input, turns, model_calls, tool_runs >>
  /\ UNCHANGED fetch_vars

\* The agent node (call_model), its routing, and main's handling of the chunk.
CallModel ==
  /\ pc = "Deciding"
  /\ model_calls' = model_calls + 1
  /\ model_input' = ModelInput(messages)
  /\ \/ \* model.invoke raises; nothing on the way up catches it
        /\ pc' = "Crashed"
        /\ UNCHANGED << messages, streamed, final_response, cycles,
                        conversation_history >>
     \/ \E response \in
            { AIMessage(t, <<>>) : t \in AnswerTexts } \cup
            { AIMessage(<<>>, c) : c \in
                IF cycles < MaxToolCycles
                THEN SeqsUpTo(ToolCalls, MaxCallsPerRequest) ELSE {} } :
          LET update == << response >> IN
          /\ messages' = add(messages, update)
          /\ conversation_history' = operand_after_add(conversation_history, update)
          /\ streamed' = streamed \o update
          /\ final_response' = ScanChunk(final_response, update)
          /\ cycles' = IF response.tool_calls # <<>> THEN cycles + 1 ELSE cycles
          /\ pc' = NextNode(should_continue(messages'))
  /\ UNCHANGED << env_key, user_input, output, turns, inputs_read, tool_runs >>
  /\ UNCHANGED fetch_vars

\* The action node (ToolNode over [get_weather]) and the edge back to agent.
ToolDispatch ==
  /\ pc = "Dispatching"
  /\ tool_runs' = tool_runs + 1
  /\ LET calls == Last(messages).tool_calls IN
     \E provider \in [1..Len(calls) -> ProviderOutcomes] :
       LET update == [i \in 1..Len(calls) |-> RunTool(calls[i], provider[i])]
       IN /\ messages' = add(messages, update)
          /\ conversation_history' = operand_after_add(conversation_history, update)
          /\ streamed' = streamed \o update
          /\ final_response' = ScanChunk(final_response, update)
          /\ http_log' = http_log \o ToolRequests(calls, provider)
          /\ fetch_calls' = fetch_calls + WeatherCalls(calls)
  /\ pc' = "Deciding"
  /\ UNCHANGED << env_key, user_input, model_input, output, turns, cycles,
                  inputs_read, model_calls, fw_city, fw_resp, fw_result >>

\* A turn end that prints the answer but does not store it.
FinishTurn_noappend ==
  /\ pc = "TurnEnd"
  /\ output' = Append(output, Out("AI:", final_response.content))
  /\ turns' = turns + 1
  /\ messages' = <<>>
  /\ streamed' = <<>>
  /\ model_input' = <<>>
  /\ pc' = "AwaitingInput"
  /\ UNCHANGED << env_key, conversation_history, user_input, final_response,
                  cycles, inputs_read, model_calls, tool_runs >>
  /\ http_log' = <<>>
  /\ fetch_calls' = 0
  /\ UNCHANGED << fw_city, fw_resp, fw_result >>

\* A turn end that stores the answer but prints the fallback line.
FinishTurn_fallback ==
  /\ pc = "TurnEnd"
  /\ conversation_history' = Append(conversation_history, final_response)
  /\ output' = Append(output,
       Out("AI:", <<"I seem to have run into an issue processing that.">>))
  /\ turns' = turns + 1
  /\ messages' = <<>>
  /\ streamed' = <<>>
  /\ model_input' = <<>>
  /\ pc' = "AwaitingInput"
  /\ UNCHANGED << env_key, user_input, final_response, cycles, inputs_read,
                  model_calls, tool_runs >>
  /\ http_log' = <<>>
  /\ fetch_calls' = 0
  /\ UNCHANGED << fw_city, fw_resp, fw_result >>

\* The stream is exhausted: main's if final_response / else.
FinishTurn ==
  /\ pc = "TurnEnd"
  /\ IF final_response # NoMessage
     THEN /\ conversation_history' = Append(conversation_history, final_response)
          /\ output' = Append(output, Out("AI:", final_response.content))
     ELSE /\ output' = Append(output,
               Out("AI:", <<"I seem to have run into an issue processing that.">>))
          /\ UNCHANGED conversation_history
  /\ turns' = turns + 1
  /\ messages' = <<>>
  /\ streamed' = <<>>
  /\ model_input' = <<>>
  /\ pc' = "AwaitingInput"
  /\ UNCHANGED << env_key, user_input, final_response, cycles, inputs_read,
                  model_calls, tool_runs >>
  /\ http_log' = <<>>
  /\ fetch_calls' = 0
  /\ UNCHANGED << fw_city, fw_resp, fw_result >>

Next ==
  \/ ConstructModel
  \/ MissingKey
  \/ StartMain
  \/ ReadInput
  \/ CallModel
  \/ ToolDispatch
  \/ FinishTurn

Spec == Init /\ [][Next]_vars

\* ------------------------------------------------------------ direct calls
\* get_weather called by a caller that imported the file (which needs the
\* module-level construction to have succeeded).
FetchCall ==
  /\ pc = "DirectCall"
  /\ fetch_calls < MaxFetches
  /\ \E city \in FetchCities, provider \in FetchResponses :
       LET result == get_weather(city, provider) IN
       /\ fw_city' = city
       /\ fw_resp' = provider
       /\ fw_result' = result
       /\ http_log' = http_log \o result.requests
  /\ fetch_calls' = fetch_calls + 1
  /\ UNCHANGED << env_key, pc, conversation_history, user_input,
                  final_response, messages, streamed, model_input, output,
                  turns, cycles, inputs_read, model_calls, tool_runs >>

FetchInit ==
  /\ InitData
  /\ \/ pc = "Import"
     \/ pc = "DirectCall" /\ env_key = "set"

FetchNext == Next \/ FetchCall

\* The file run as a program, or imported and its tool called directly.
FetchSpec == FetchInit /\ [][FetchNext]_vars

\* The session loop runs straight-line code once the stream is exhausted;
\* the model backend and the provider may block forever, so only the turn
\* end is taken to be fair.
FairSpec == Spec /\ WF_vars(FinishTurn)

\* ------------------------------------------------------------------ claims
\* The conversation a Decision Step would be handed at this moment: the
\* graph's message list during a turn, main's list between turns.
Conversation == IF InTurn THEN messages ELSE conversation_history

\* C1 (as stated): the conversation, tool requests and tool results
\* included, at any moment is a prefix of the conversation at every later
\* moment, also across the end of a turn.
C1_ConversationAppendOnly == [][IsPrefix(Conversation, Conversation')]_vars

\* C1 (amended): conversation_history is append-only for the whole session,
\* and while a turn runs the graph's message list is append-only; what a
\* turn adds to the graph's list beyond the final text is not kept.
C1_HistoryAppendOnly ==
  [][ /\ IsPrefix(conversation_history, conversation_history')
      /\ (InTurn /\ InTurn' => IsPrefix(messages, messages'))
      /\ (InTurn /\ InTurn' => IsPrefix(conversation_history, messages')) ]_vars

\* A second turn has issued a tool request after a first turn that went through a tool
\* cycle and ended.
C1_Witness ==
  /\ pc = "Dispatching"
  /\ turns = 1
  /\ tool_runs >= 1
  /\ Len(conversation_history) = 3
  /\ Len(messages) = 4

\* C2: Deciding is entered only from AwaitingInput or Dispatching;
\* Dispatching only from Deciding with a tool request as the last message,
\* and it leaves only for Deciding; AwaitingInput is re-entered only from
\* the end of a stream whose last message is a tool-free assistant
\* message; no input is read during a turn.
C2_StateMachine ==
  [][ /\ (pc' = "Deciding" /\ pc # "Deciding"
            => pc \in {"AwaitingInput", "Dispatching"})
      /\ (pc' = "Dispatching" /\ pc # "Dispatching"
            => /\ pc = "Deciding"
               /\ Last(messages').type = "ai"
               /\ Last(messages').tool_calls # <<>>)
      /\ (pc = "Dispatching" /\ pc' # "Dispatching" => pc' = "Deciding")
      /\ (pc' = "TurnEnd" /\ pc # "TurnEnd"
            => /\ pc = "Deciding"
               /\ Last(messages').type = "ai"
               /\ Last(messages').tool_calls = <<>>)
      /\ (pc' = "AwaitingInput" /\ pc # "AwaitingInput"
            => pc \in {"MainGuard", "TurnEnd"})
      /\ (InTurn => inputs_read' = inputs_read) ]_vars

\* Deciding has been re-entered from Dispatching.
C2_Witness ==
  /\ pc = "Deciding"
  /\ Len(messages) > 0
  /\ Last(messages).type = "tool"

\* C3 (as stated): no step taken inside a turn ends in the crashed state.
C3_NoCrashInTurn == [][InTurn => pc' # "Crashed"]_vars

\* C4 (as stated): with the credential absent the process never crashes,
\* never starts the loop, and once it has ended it has printed the fixed
\* error message.
C4_MissingKeyReported ==
  env_key = "unset" =>
    /\ pc \in {"Import", "MainGuard", "ConfigExit"}
    /\ (pc = "ConfigExit" => Len(output) = 2 /\ output[1].kind = "error")

\* C5: after N completed turns the history holds at least 2N entries; its
\* length never decreases and every completed turn makes it longer.
C5_HistoryLength ==
  [][ /\ Len(conversation_history') >= 2 * turns'
      /\ Len(conversation_history') >= Len(conversation_history)
      /\ (turns' > turns => Len(conversation_history') > Len(conversation_history))
      /\ (pc = "AwaitingInput" /\ pc' = "Deciding"
            => Len(conversation_history') > Len(conversation_history)) ]_vars

\* Two turns have been completed.
C5_Witness ==
  /\ pc = "AwaitingInput"
  /\ turns = 2
  /\ Len(conversation_history) = 4

\* Pairs of a lower-case letter and its upper-case form.
CasePairs ==
  { <<"q","Q">>, <<"u","U">>, <<"i","I">>, <<"t","T">>, <<"e","E">>, <<"x","X">> }

\* The line is the word up to the case of its letters.
SameUpToCase(line, word) ==
  /\ Len(line) = Len(word)
  /\ \A i \in 1..Len(word) : line[i] = word[i] \/ <<word[i], line[i]>> \in CasePairs

IsExitKeyword(line) ==
  \/ SameUpToCase(line, <<"q","u","i","t">>)
  \/ SameUpToCase(line, <<"e","x","i","t">>)

\* C6: a line read at AwaitingInput that is quit or exit up to case prints
\* the goodbye message and enters Exiting with no model call, no tool run
\* and no change of the history; every other line starts a turn; nothing
\* happens after Exiting.
C6_ExitKeyword ==
  [][ /\ (pc = "AwaitingInput" /\ inputs_read' # inputs_read =>
            IF IsExitKeyword(user_input')
            THEN /\ pc' = "Exiting"
                 /\ output' = Append(output, Out("goodbye", <<"Goodbye!">>))
                 /\ conversation_history' = conversation_history
                 /\ model_calls' = model_calls
                 /\ tool_runs' = tool_runs
            ELSE /\ pc' = "Deciding"
                 /\ conversation_history' =
                      Append(conversation_history, HumanMessage(user_input')))
      /\ (pc = "Exiting" =>
            /\ pc' = "Exiting"
            /\ inputs_read' = inputs_read
            /\ model_calls' = model_calls
            /\ tool_runs' = tool_runs) ]_vars

\* An upper-case exit keyword ended the session after a completed turn.
C6_Witness ==
  /\ pc = "Exiting"
  /\ turns >= 1
  /\ user_input = <<"E","x","i","T">>
  /\ Last(output).kind = "goodbye"

\* Every tool result of the sequence has, before it, an assistant tool
\* request naming its tool, with nothing but tool results in between.
ResultsFollowRequests(seq) ==
  \A i \in 1..Len(seq) :
    seq[i].type = "tool" =>
      \E j \in 1..(i - 1) :
        /\ seq[j].type = "ai"
        /\ \E k \in 1..Len(seq[j].tool_calls) : seq[j].tool_calls[k].name = seq[i].name
        /\ \A m \in (j + 1)..(i - 1) : seq[m].type = "tool"

\* C7: in every reachable conversation each ToolResult follows, within the
\* same turn and with no UserText in between, an AssistantToolRequest for
\* the same tool.
C7_ToolResultHasRequest ==
  /\ ResultsFollowRequests(messages)
  /\ ResultsFollowRequests(conversation_history)

\* A result for a tool that is not registered sits in the conversation.
C7_Witness ==
  \E i \in 1..Len(messages) :
    messages[i].type = "tool" /\ messages[i].name = "get_time"

\* C8: once the Decision Step has returned a tool-free response, after any
\* number of tool cycles, the turn ends: the response is printed after
\* "AI:" and the session is back in AwaitingInput.
C8_TurnEnds ==
  (pc = "TurnEnd" /\ final_response # NoMessage)
    ~> (/\ pc = "AwaitingInput"
        /\ Last(output) = Out("AI:", final_response.content))

\* A turn that went through every allowed tool cycle has ended with its
\* answer printed.
C8_Witness ==
  /\ pc = "AwaitingInput"
  /\ cycles = MaxToolCycles
  /\ turns >= 1
  /\ Last(output).kind = "AI:"
  /\ Last(output).text \in AnswerTexts

\* C9: a tool request is in the graph's list before Dispatching starts; a
\* tool-free text is the turn's final answer, and after the turn it is the
\* last entry of the history and the text printed after "AI:".
C9_FinalAnswerStored ==
  /\ (pc = "Dispatching" =>
        Last(messages).type = "ai" /\ Last(messages).tool_calls # <<>>)
  /\ (pc = "TurnEnd" =>
        /\ Last(messages).type = "ai" /\ Last(messages).tool_calls = <<>>
        /\ final_response = Last(messages))
  /\ (pc = "AwaitingInput" /\ turns > 0 =>
        /\ final_response.type = "ai" /\ final_response.tool_calls = <<>>
        /\ Last(conversation_history) = final_response
        /\ Last(output) = Out("AI:", final_response.content))

\* A turn with a tool cycle has ended and its answer is stored.
C9_Witness ==
  /\ pc = "AwaitingInput"
  /\ turns = 1
  /\ tool_runs = 1
  /\ Last(conversation_history).type = "ai"

\* C10: what the model is handed is the history of the earlier turns, the
\* current UserText, then the requests and results of the current turn in
\* the order they were produced.
C10_ModelSeesFullHistory ==
  /\ (pc \in {"Dispatching", "TurnEnd"} =>
        /\ model_input =
             conversation_history \o SubSeq(streamed, 1, Len(streamed) - 1)
        /\ Last(conversation_history) = HumanMessage(user_input)
        /\ Len(conversation_history) = 2 * turns + 1)
  /\ (pc = "Crashed" /\ model_calls > 0 =>
        model_input = conversation_history \o streamed)

\* In a second turn the model was called after a tool cycle.
C10_Witness ==
  /\ pc = "TurnEnd"
  /\ turns = 1
  /\ Len(streamed) = 3
  /\ Len(model_input) = 5

\* C12 (as stated): whenever a turn is over and no tool-free assistant
\* message was produced in it, the fallback apology has been printed, the
\* history holds nothing beyond the turn's UserText, and the session is in
\* AwaitingInput.
C12_FallbackOnNoAnswer ==
  [][ InTurn /\ ~InTurn' /\ final_response' = NoMessage =>
        /\ pc' = "AwaitingInput"
        /\ output' = Append(output,
             Out("AI:", <<"I seem to have run into an issue processing that.">>))
        /\ conversation_history' = conversation_history ]_vars

\* C16: while the graph runs, conversation_history stays as it is; it is
\* written only by main's append of the UserText before the run and by
\* main's append of the final AssistantText after it.
C16_OnlyMainWritesHistory ==
  [][ /\ (InTurn /\ pc # "TurnEnd" => conversation_history' = conversation_history)
      /\ (conversation_history' # conversation_history =>
            \/ /\ pc = "AwaitingInput"
               /\ conversation_history' =
                    Append(conversation_history, HumanMessage(user_input'))
            \/ /\ pc = "TurnEnd"
               /\ conversation_history' =
                    Append(conversation_history, final_response)) ]_vars

\* The graph has accumulated a request, its result and an answer beyond
\* the history it was started with.
C16_Witness ==
  /\ pc = "TurnEnd"
  /\ Len(streamed) = 3
  /\ Len(messages) = Len(conversation_history) + 3
  /\ IsPrefix(conversation_history, messages)

\* ---------------------------------------------------- claims on get_weather
\* A direct call of get_weather with a text city has returned or raised.
TextCallDone == pc = "DirectCall" /\ fetch_calls > 0 /\ fw_city.t = "str"

\* Provider behaviours that are a transport failure or a non-2xx status.
NetworkFailures == { "transport_error", "http_404" }

\* Provider behaviours whose body lacks the expected fields or has another
\* shape than expected.
UnexpectedShapes ==
  { "no_current_condition", "empty_list", "data_is_list", "condition_is_text",
    "condition_is_null", "desc_without_value", "no_humidity", "not_json" }

\* C11 (as stated): get_weather never raises; a transport failure or a
\* non-2xx status gives the fetch error with the underlying error text, and
\* every body of an unexpected shape gives the parse error that says the
\* city might be invalid.
C11_FetchTotal ==
  TextCallDone =>
    /\ fw_result.raised = ""
    /\ (fw_resp \in NetworkFailures =>
          /\ fw_result.text[1] = "Error fetching weather data:"
          /\ fw_result.text[2] \in {"ConnectionError", "HTTPError"})
    /\ (fw_resp \in UnexpectedShapes =>
          fw_result.text[1] =
            "Error parsing weather data. The city might be invalid. Details:")

\* C13: a call whose city is not text returns the error text and issues no
\* HTTP request.
C13_NonTextCity ==
  [][ pc = "DirectCall" /\ fetch_calls' # fetch_calls /\ fw_city'.t # "str" =>
        /\ http_log' = http_log
        /\ fw_result'.requests = <<>>
        /\ fw_result'.raised = ""
        /\ fw_result'.text = <<"Error: City must be a string.">> ]_vars

\* Two calls with a city that is not text have been made and no request
\* has gone out.
C13_Witness ==
  /\ pc = "DirectCall"
  /\ fetch_calls = 2
  /\ fw_city.t = "int"
  /\ fw_result.text = <<"Error: City must be a string.">>
  /\ http_log = <<>>

\* The keys of the report in the order json.dumps writes them.
ReportKeys ==
  << "city", "temperature_celsius", "temperature_fahrenheit", "description",
     "humidity_percent", "wind_speed_kmph" >>

KeyAt(text, k) == CHOOSE i \in 1..Len(text) : text[i] = ReportKeys[k]

\* The value the report text gives for its k-th key.
ReportField(text, k) ==
  SubSeq(text, KeyAt(text, k) + 1,
         IF k = Len(ReportKeys) THEN Len(text) ELSE KeyAt(text, k + 1) - 1)

\* The reply is a success whose first current_condition element carries
\* weatherDesc[0].value, temp_C, temp_F, humidity and windspeedKmph.
CarriesFields(resp) ==
  /\ resp.error = "" /\ resp.status = 200 /\ resp.json
  /\ resp.data.t = "dict"
  /\ "current_condition" \in DOMAIN resp.data.d
  /\ resp.data.d.current_condition.t = "list"
  /\ Len(resp.data.d.current_condition.d) > 0
  /\ LET e == resp.data.d.current_condition.d[1] IN
     /\ e.t = "dict"
     /\ {"weatherDesc", "temp_C", "temp_F", "humidity", "windspeedKmph"}
          \subseteq DOMAIN e.d
     /\ e.d.weatherDesc.t = "list"
     /\ Len(e.d.weatherDesc.d) > 0
     /\ e.d.weatherDesc.d[1].t = "dict"
     /\ "value" \in DOMAIN e.d.weatherDesc.d[1].d

\* C14: for a successful reply that carries the five fields, the report's
\* description, temperatures, humidity and wind speed are the reply's
\* values and its city is the argument as given.
C14_ReportFields ==
  TextCallDone /\ CarriesFields(Response(fw_resp)) =>
    LET e == Response(fw_resp).data.d.current_condition.d[1].d
        text == fw_result.text
    IN /\ fw_result.raised = ""
       /\ ReportField(text, 1) = fw_city.d
       /\ ReportField(text, 2) = e.temp_C.d
       /\ ReportField(text, 3) = e.temp_F.d
       /\ ReportField(text, 4) = e.weatherDesc.d[1].d.value.d
       /\ ReportField(text, 5) = e.humidity.d
       /\ ReportField(text, 6) = e.windspeedKmph.d

\* A report for a city with a space in its name, from a reply with two
\* current_condition elements.
C14_Witness ==
  /\ TextCallDone
  /\ fw_resp = "ok_rainy"
  /\ fw_city.d = <<"N"," ","Y">>
  /\ fw_result.raised = ""
  /\ fw_result.text[1] = "city"

\* u is the request URL of the city: the endpoint, the city with every
\* space replaced by "+", the format parameter.
IsUrlOf(u, city) ==
  /\ Len(u) = Len(city) + 2
  /\ u[1] = "https://wttr.in/"
  /\ u[Len(u)] = "?format=j1"
  /\ \A i \in 1..Len(city) :
       IF city[i] = " " THEN u[i + 1] = "+" ELSE u[i + 1] = city[i]

\* C15: every call of get_weather with a text city adds exactly one GET,
\* whatever the outcome and whatever was requested before, and its URL is
\* the one of the city; nothing else issues a GET.  (The log is kept per
\* turn: the end of a turn empties it.)
C15_OneGetPerCall ==
  [][ /\ (pc # "TurnEnd" => IsPrefix(http_log, http_log'))
      /\ (pc = "DirectCall" /\ fetch_calls' # fetch_calls /\ fw_city'.t = "str" =>
            /\ Len(http_log') = Len(http_log) + 1
            /\ IsUrlOf(Last(http_log'), fw_city'.d))
      /\ (pc = "Dispatching" /\ pc' # pc =>
            LET calls == Last(messages).tool_calls
                weather == { i \in 1..Len(calls) : calls[i].name = "get_weather" }
            IN /\ Len(http_log') = Len(http_log) + Cardinality(weather)
               /\ fetch_calls' = fetch_calls + Cardinality(weather)
               /\ \A j \in (Len(http_log) + 1)..Len(http_log') :
                    \E i \in weather : IsUrlOf(http_log'[j], calls[i].city))
      /\ (pc \notin {"DirectCall", "Dispatching", "TurnEnd"} =>
            http_log' = http_log)
      /\ (pc = "TurnEnd" => http_log' \in {http_log, <<>>}) ]_vars

\* The same city was looked up twice, the second time with a non-2xx
\* answer, and two requests went out.
C15_Witness ==
  /\ pc = "DirectCall"
  /\ fetch_calls = 2
  /\ Len(http_log) = 2
  /\ http_log[1] = http_log[2]
  /\ fw_city.d = <<"N"," ","Y">>
  /\ fw_resp = "http_404"

====
